---- MODULE Spec2Model ----
(***************************************************************************)
(* Model of mtr-logger (package mtrpy): the hop statistics table           *)
(* (stats.py), the two round runners with their output parsers             *)
(* (tracer.run_tracer_round, cli.run_traceroute_round), the probe loop     *)
(* (cli.mtr_loop) and the loss alert helpers (cli.mtr_loop,                *)
(* export._loss_alert_lines).                                              *)
(*                                                                         *)
(* Text is modelled character by character: a Python str is a tuple of     *)
(* one-character strings, so the regular expressions of the parsers are    *)
(* modelled by what they match.  Python's None is the value None below.    *)
(* An RTT (a Python float parsed from decimal text) is an integer number   *)
(* of thousandths of a millisecond.                                        *)
(***************************************************************************)
EXTENDS Integers, Sequences, FiniteSets, TLC

\* ------------------------------------------------------------------------
\* Bounds of the model
\* ------------------------------------------------------------------------
\* lines of one traceroute output handed to run_tracer_round
MaxLines == 2
\* rounds of one mtr_loop session
MaxRounds == 2
\* max_hops of mtr_loop: the largest hop number of a session
MaxTtl == 2
\* calls of the Circuit API in one session
MaxCalls == 2

\* ------------------------------------------------------------------------
\* Python values
\* ------------------------------------------------------------------------
None == <<"None">>

EmptyDict == <<>>

Put(d, k, v) == [x \in (DOMAIN d) \cup {k} |-> IF x = k THEN v ELSE d[x]]

SetDefault(d, k, v) == IF k \in DOMAIN d THEN d ELSE Put(d, k, v)

Max2(a, b) == IF a >= b THEN a ELSE b

Min2(a, b) == IF a <= b THEN a ELSE b

\* ------------------------------------------------------------------------
\* Characters and strings
\* ------------------------------------------------------------------------
Whitespace == {" ", "\t"}

Digits == {"0", "1", "2", "3", "4", "5", "6", "7", "8", "9"}

DigitVal(c) ==
  CASE c = "0" -> 0 [] c = "1" -> 1 [] c = "2" -> 2 [] c = "3" -> 3
    [] c = "4" -> 4 [] c = "5" -> 5 [] c = "6" -> 6 [] c = "7" -> 7
    [] c = "8" -> 8 [] c = "9" -> 9

Drop(s, n) == SubSeq(s, n + 1, Len(s))

Take(s, n) == SubSeq(s, 1, n)

\* number of leading characters of s that belong to the class cls
RECURSIVE Span(_, _)
Span(s, cls) ==
  IF s = <<>> \/ Head(s) \notin cls THEN 0 ELSE 1 + Span(Tail(s), cls)

RECURSIVE Reverse(_)
Reverse(s) == IF s = <<>> THEN <<>> ELSE Append(Reverse(Tail(s)), Head(s))

\* str.strip()
Strip(s) ==
  LET l == Drop(s, Span(s, Whitespace))
  IN  Take(l, Len(l) - Span(Reverse(l), Whitespace))

\* int(str) of a run of decimal digits
RECURSIVE IntOf(_)
IntOf(ds) ==
  IF ds = <<>> THEN 0 ELSE 10 * IntOf(Take(ds, Len(ds) - 1)) + DigitVal(ds[Len(ds)])

\* float(str) of "<digits>" or "<digits>.<digits>", in thousandths; digits of
\* the fraction after the third are not represented
FloatOf(ip, fp) ==
  LET f3 == Take(fp \o <<"0", "0", "0">>, 3)
  IN  1000 * IntOf(ip) + IntOf(f3)

\* str.startswith
StartsWith(s, p) == Len(s) >= Len(p) /\ Take(s, Len(p)) = p

\* x in str, for a one-character x
Contains(s, c) == \E i \in 1..Len(s) : s[i] = c

\* str.count of a one-character x
Count(s, c) == Cardinality({i \in 1..Len(s) : s[i] = c})

\* str.replace of one character by another
Replace(s, a, b) == [i \in 1..Len(s) |-> IF s[i] = a THEN b ELSE s[i]]

\* number of leading characters of s that do not belong to the class cls
RECURSIVE SpanNot(_, _)
SpanNot(s, cls) ==
  IF s = <<>> \/ Head(s) \in cls THEN 0 ELSE 1 + SpanNot(Tail(s), cls)

\* str.split(): the maximal runs of non-whitespace characters
RECURSIVE Split(_)
Split(s) ==
  LET l == Drop(s, Span(s, Whitespace))
      n == SpanNot(l, Whitespace)
  IN  IF l = <<>> THEN <<>> ELSE <<Take(l, n)>> \o Split(Drop(l, n))

\* ------------------------------------------------------------------------
\* Regular expressions of the parsers
\* ------------------------------------------------------------------------

\* _TR_PAT / LINE_RE  ^\s*(\d+)\s+(.+)$  : after optional leading whitespace
\* a maximal run of digits, then at least one whitespace character, then at
\* least one more character (the greedy \s+ gives its last character back to
\* .+ when nothing else is left).
TrAfterIndent(line) == Drop(line, Span(line, Whitespace))

TrDigits(line) == Take(TrAfterIndent(line), Span(TrAfterIndent(line), Digits))

TrAfterDigits(line) == Drop(TrAfterIndent(line), Span(TrAfterIndent(line), Digits))

\* a variant of TrMatch for  ^\s*(\d+)\s+(.*)$
TrMatchLoose(line) ==
  /\ TrDigits(line) # <<>>
  /\ Len(TrAfterDigits(line)) >= 1
  /\ TrAfterDigits(line)[1] \in Whitespace

TrMatch(line) ==
  /\ TrDigits(line) # <<>>
  /\ Len(TrAfterDigits(line)) >= 2
  /\ TrAfterDigits(line)[1] \in Whitespace

TrGroup1(line) == TrDigits(line)

TrGroup2(line) ==
  LET a == TrAfterDigits(line)
      w == Span(a, Whitespace)
  IN  IF w = Len(a) THEN Drop(a, w - 1) ELSE Drop(a, w)

\* length of the match of  \s*ms  at the head of s, or -1
WsMsLen(s) ==
  LET w == Span(s, Whitespace)
  IN  IF StartsWith(Drop(s, w), <<"m", "s">>) THEN w + 2 ELSE -1

\* _RTTS_PAT  ([0-9]+\.[0-9]+)\s*ms  anchored at the head of s:
\* <<length of the match, value of group 1>>, or <<-1, 0>>
RttsPatAt(s) ==
  LET i == Span(s, Digits)
      r == Drop(s, i)
      f == IF r # <<>> /\ Head(r) = "." THEN Span(Tail(r), Digits) ELSE 0
      t == WsMsLen(Drop(s, i + 1 + f))
  IN  IF i > 0 /\ f > 0 /\ t >= 0
        THEN <<i + 1 + f + t, FloatOf(Take(s, i), SubSeq(s, i + 2, i + 1 + f))>>
        ELSE <<-1, 0>>

\* _RTTS_PAT.findall(s) followed by float(): leftmost, non-overlapping
RECURSIVE RttsFindAll(_)
RttsFindAll(s) ==
  IF s = <<>> THEN <<>>
  ELSE LET m == RttsPatAt(s)
       IN  IF m[1] > 0 THEN <<m[2]>> \o RttsFindAll(Drop(s, m[1]))
                       ELSE RttsFindAll(Tail(s))

\* RTT_RE  (\d+(?:\.\d+)?)\s*ms  anchored at the head of s
RttReAt(s) ==
  LET i == Span(s, Digits)
      r == Drop(s, i)
      f == IF r # <<>> /\ Head(r) = "." THEN Span(Tail(r), Digits) ELSE 0
      g == IF f > 0 THEN i + 1 + f ELSE i
      t == WsMsLen(Drop(s, g))
  IN  IF i > 0 /\ t >= 0
        THEN <<g + t, FloatOf(Take(s, i), SubSeq(s, i + 2, i + 1 + f))>>
        ELSE <<-1, 0>>

\* RTT_RE.search(s) followed by float(group 1): <<value>>, or <<>> for no match
RECURSIVE RttReSearch(_)
RttReSearch(s) ==
  IF s = <<>> THEN <<>>
  ELSE IF RttReAt(s)[1] > 0 THEN <<RttReAt(s)[2]>> ELSE RttReSearch(Tail(s))

\* tracer._looks_like_ip
_looks_like_ip(token) == Count(token, ".") = 3 \/ Contains(token, ":")

\* ------------------------------------------------------------------------
\* tracer.run_tracer_round: the parsing loop over the captured lines
\* ------------------------------------------------------------------------

\* the last IP-looking token of the row, or None
RECURSIVE LastIpToken(_, _)
LastIpToken(tokens, acc) ==
  IF tokens = <<>> THEN acc
  ELSE LastIpToken(Tail(tokens), IF _looks_like_ip(Head(tokens)) THEN Head(tokens) ELSE acc)

RowAddress(rest) == LastIpToken(Split(Replace(Replace(rest, "(", " "), ")", " ")), None)

\* one iteration of the loop body; r = [rtts_by_ttl, addr_by_ttl, ok]
TracerParseLine(r, line) ==
  IF ~TrMatch(line) THEN r
  ELSE
    LET ttl  == IntOf(TrGroup1(line))
        rest == Strip(TrGroup2(line))
    IN  IF StartsWith(rest, <<"*">>)
          THEN [rtts_by_ttl |-> SetDefault(r.rtts_by_ttl, ttl, <<>>),
                addr_by_ttl |-> Put(r.addr_by_ttl, ttl, None),
                ok          |-> TRUE]
          ELSE [rtts_by_ttl |-> Put(r.rtts_by_ttl, ttl, RttsFindAll(rest)),
                addr_by_ttl |-> Put(r.addr_by_ttl, ttl, RowAddress(rest)),
                ok          |-> TRUE]

RECURSIVE TracerParseFrom(_, _)
TracerParseFrom(r, text) ==
  IF text = <<>> THEN r ELSE TracerParseFrom(TracerParseLine(r, Head(text)), Tail(text))

TracerParse(text) ==
  TracerParseFrom([rtts_by_ttl |-> EmptyDict, addr_by_ttl |-> EmptyDict, ok |-> FALSE], text)

\* ------------------------------------------------------------------------
\* cli.run_traceroute_round: the parsing loop over the captured lines
\* ------------------------------------------------------------------------
CliParseLine(rtts, line) ==
  IF ~TrMatch(line) THEN rtts
  ELSE IF Contains(line, "*") THEN rtts
  ELSE IF RttReSearch(line) # <<>>
         THEN Put(rtts, IntOf(TrGroup1(line)), RttReSearch(line)[1])
         ELSE rtts

RECURSIVE CliParseFrom(_, _)
CliParseFrom(rtts, text) ==
  IF text = <<>> THEN rtts ELSE CliParseFrom(CliParseLine(rtts, Head(text)), Tail(text))

CliParse(text) == CliParseFrom(EmptyDict, text)

\* ------------------------------------------------------------------------
\* Output of the traceroute process: the lines a round draws its text from
\* ------------------------------------------------------------------------
SP == <<" ">>

MS == <<" ", "m", "s">>

IP1 == <<"1", "0", ".", "0", ".", "0", ".", "1">>

IP2 == <<"1", "0", ".", "0", ".", "0", ".", "2">>

R11 == <<"1", ".", "1">>

R22 == <<"2", ".", "2">>

STAR == <<"*">>

\* " 1  10.0.0.1  1.1 ms"
LineHop1A == SP \o <<"1">> \o SP \o SP \o IP1 \o SP \o SP \o R11 \o MS

\* "1  10.0.0.1  2.2 ms"
LineHop1B == <<"1">> \o SP \o SP \o IP1 \o SP \o SP \o R22 \o MS

\* "2  10.0.0.2  1.1 ms  2.2 ms"
LineHop2Two == <<"2">> \o SP \o SP \o IP2 \o SP \o SP \o R11 \o MS \o SP \o SP \o R22 \o MS

\* "2  * * *"
LineHop2Stars == <<"2">> \o SP \o SP \o STAR \o SP \o STAR \o SP \o STAR

\* "1 *"
LineHop1Star == <<"1">> \o SP \o STAR

\* "2  10.0.0.2  2 ms"   (an RTT printed without a fraction)
LineHop2Int == <<"2">> \o SP \o SP \o IP2 \o SP \o SP \o <<"2">> \o MS

\* "2 (10.0.0.2) 1.1 ms *"   (one reply and one lost probe on the same row)
LineHop2Mixed == <<"2">> \o SP \o <<"(">> \o IP2 \o <<")">> \o SP \o R11 \o MS \o SP \o STAR

\* "to 10.0.0.2"   (a header line)
LineHeader == <<"t", "o">> \o SP \o IP2

\* "1 "   (a hop index and one trailing blank)
LineBareIndex == <<"1">> \o SP

\* "2  "   (a hop index and two trailing blanks)
LineBlankRow == <<"2">> \o SP \o SP

SampleLines ==
  {LineHop1A, LineHop1B, LineHop2Two, LineHop2Stars, LineHop1Star, LineHop2Int,
   LineHop2Mixed, LineHeader, LineBareIndex, LineBlankRow}

\* all texts of at most n lines
RECURSIVE TextsUpTo(_, _)
TextsUpTo(lines, n) ==
  IF n = 0 THEN {<<>>}
  ELSE TextsUpTo(lines, n - 1) \cup
       {Append(t, l) : t \in {x \in TextsUpTo(lines, n - 1) : Len(x) = n - 1}, l \in lines}

Outputs == TextsUpTo(SampleLines, MaxLines)

\* str(i) for a one-digit i
DigitChar(i) ==
  CASE i = 0 -> "0" [] i = 1 -> "1" [] i = 2 -> "2" [] i = 3 -> "3" [] i = 4 -> "4"
    [] i = 5 -> "5" [] i = 6 -> "6" [] i = 7 -> "7" [] i = 8 -> "8" [] i = 9 -> "9"

\* the line of hop i in a run with one probe per hop (-q 1, cli.py:30):
\* "i  10.0.0.i  i.1 ms" when the hop replies, "i  *" when it does not
ReplyLine(i) ==
  <<DigitChar(i)>> \o SP \o SP \o <<"1", "0", ".", "0", ".", "0", ".", DigitChar(i)>>
    \o SP \o SP \o <<DigitChar(i), ".", "1">> \o MS

StarLine(i) == <<DigitChar(i)>> \o SP \o SP \o STAR

\* what a run with -m m may have written: the lines of hops 1..k, k <= m
RECURSIVE CliOutputs(_)
CliOutputs(m) ==
  IF m = 0 THEN {<<>>}
  ELSE CliOutputs(m - 1) \cup
       {Append(t, l) : t \in {y \in CliOutputs(m - 1) : Len(y) = m - 1},
                       l \in {ReplyLine(m), StarLine(m)}}

\* ------------------------------------------------------------------------
\* stats.py: HopStat and Circuit
\* ------------------------------------------------------------------------

\* Optional[float]: <<>> is None, <<v>> is the value v.  avg_ms is the exact
\* quotient <<sum, count>>.
HopStat(ttl, address) ==
  [ttl |-> ttl, address |-> address, sent |-> 0, recv |-> 0,
   best_ms |-> <<>>, worst_ms |-> <<>>, avg_ms |-> <<>>, rtts |-> <<>>]

\* truth value of an Optional[str]
Truthy(str) == str # None /\ str # <<>>

RECURSIVE Sum(_)
Sum(seq) == IF seq = <<>> THEN 0 ELSE Head(seq) + Sum(Tail(seq))

\* a variant of _get that takes every non-empty address it is given
_getOverwrite(c, ttl, address) ==
  LET c1 == IF ttl \in DOMAIN c.hops THEN c
            ELSE [heap |-> Append(c.heap, HopStat(ttl, address)),
                  hops |-> Put(c.hops, ttl, Len(c.heap) + 1)]
      i  == c1.hops[ttl]
  IN  IF Truthy(address) THEN [c1 EXCEPT !.heap[i].address = address] ELSE c1

\* a Circuit is [heap, hops]: heap is the sequence of the HopStat objects
\* allocated so far, hops maps a hop number to the index of its object
_get(c, ttl, address) ==
  LET c1 == IF ttl \in DOMAIN c.hops THEN c
            ELSE [heap |-> Append(c.heap, HopStat(ttl, address)),
                  hops |-> Put(c.hops, ttl, Len(c.heap) + 1)]
      i  == c1.hops[ttl]
  IN  IF Truthy(address) /\ ~Truthy(c1.heap[i].address)
        THEN [c1 EXCEPT !.heap[i].address = address]
        ELSE c1

\* a variant of ClampProbes that lets a negative probes_attempted through
ClampProbesNone(probes_attempted) == probes_attempted

\* stats.py:46-47
ClampProbes(probes_attempted) == IF probes_attempted < 0 THEN 0 ELSE probes_attempted

\* stats.py:50-54, the body of the loop over samples_ms
FoldSample(hop, rtt) ==
  [hop EXCEPT !.recv = @ + 1,
              !.rtts = Append(@, rtt),
              !.best_ms = IF @ = <<>> THEN <<rtt>> ELSE <<Min2(@[1], rtt)>>,
              !.worst_ms = IF @ = <<>> THEN <<rtt>> ELSE <<Max2(@[1], rtt)>>]

RECURSIVE FoldSamples(_, _)
FoldSamples(hop, samples_ms) ==
  IF samples_ms = <<>> THEN hop
  ELSE FoldSamples(FoldSample(hop, Head(samples_ms)), Tail(samples_ms))

\* stats.py:56-58
SetAvg(hop) ==
  IF hop.rtts # <<>> THEN [hop EXCEPT !.avg_ms = <<Sum(hop.rtts), Len(hop.rtts)>>] ELSE hop

CircuitUpdateHopRound(c, ttl, address, probes_attempted, samples_ms) ==
  LET c1 == _get(c, ttl, address)
      i  == c1.hops[ttl]
      h1 == [c1.heap[i] EXCEPT !.sent = @ + ClampProbes(probes_attempted)]
  IN  [c1 EXCEPT !.heap[i] = SetAvg(FoldSamples(h1, samples_ms))]

\* ------------------------------------------------------------------------
\* cli.py: DNS helpers of the probe loop
\* ------------------------------------------------------------------------

\* the dot-separated parts of a string
RECURSIVE DotParts(_)
DotParts(str) ==
  LET n == SpanNot(str, {"."})
  IN  IF n = Len(str) THEN <<str>> ELSE <<Take(str, n)>> \o DotParts(Drop(str, n + 1))

\* cli._is_ip: ipaddress.ip_address accepts the string (IPv4 dotted quads;
\* the texts of the model hold no IPv6 literal)
_is_ip(str) ==
  /\ Truthy(str)
  /\ Len(DotParts(str)) = 4
  /\ \A i \in 1..4 :
       LET part == DotParts(str)[i]
       IN  /\ Len(part) \in 1..3
           /\ Span(part, Digits) = Len(part)
           /\ IntOf(part) <= 255

\* a host name a PTR lookup may return
HOST == <<"g", "w">>

\* outcomes of cli._ptr_lookup: a name, or None (no PTR record, or an error)
PtrResults == {None, HOST}

\* cli.py:146-153: the positions in hopstats of the hops to look up
ResolveTargets(heapv, hopstatsv, cache) ==
  SelectSeq([k \in 1..Len(hopstatsv) |-> k],
            LAMBDA k : /\ _is_ip(heapv[hopstatsv[k]].address)
                       /\ heapv[hopstatsv[k]].address \notin DOMAIN cache)

\* cli.py:157-161: apply the gathered results in order; st = [heap, cache],
\* heap0 is the heap when the targets were collected
RECURSIVE ApplyPtrResults(_, _, _, _, _)
ApplyPtrResults(st, heap0, hopstatsv, targets, results) ==
  IF targets = <<>> THEN st
  ELSE LET obj  == hopstatsv[Head(targets)]
           ip   == heap0[obj].address
           name == Head(results)
           st1  == [heap  |-> IF Truthy(name)
                                THEN [st.heap EXCEPT ![obj].address = name]
                                ELSE st.heap,
                    cache |-> Put(st.cache, ip, name)]
       IN  ApplyPtrResults(st1, heap0, hopstatsv, Tail(targets), Tail(results))

\* a variant of UnknownAddress that forgets the "*" marker
UnknownAddressNoStar(address) == address = None

\* cli.py:203: hs.address in (None, "*")
UnknownAddress(address) == address \in {None, STAR}

\* a variant of LossAlertCond that also fires without loss
LossAlertCondAlways(lost) == lost >= 0

\* cli.py:206
LossAlertCond(lost) == lost > 0

\* cli.py:199-207: the alert of one hop in a frame, [ttl, tstr, lost]; tstr,
\* the time of the frame, is the number of the round
CliAlertOf(hs, tstr) ==
  IF UnknownAddress(hs.address) THEN <<>>
  ELSE IF LossAlertCond(Max2(0, hs.sent - hs.recv))
         THEN <<[ttl |-> hs.ttl, tstr |-> tstr, lost |-> Max2(0, hs.sent - hs.recv)]>>
         ELSE <<>>

\* sorted(dict.keys())
RECURSIVE SortedKeys(_)
SortedKeys(keys) ==
  IF keys = {} THEN <<>>
  ELSE LET m == CHOOSE k \in keys : \A j \in keys : k <= j
       IN  <<m>> \o SortedKeys(keys \ {m})

RECURSIVE CliAlertsFrom(_, _, _)
CliAlertsFrom(c, ttls, tstr) ==
  IF ttls = <<>> THEN <<>>
  ELSE CliAlertOf(c.heap[c.hops[Head(ttls)]], tstr) \o CliAlertsFrom(c, Tail(ttls), tstr)

CliAlerts(c, tstr) == CliAlertsFrom(c, SortedKeys(DOMAIN c.hops), tstr)

\* ------------------------------------------------------------------------
\* export.py: the alerts section of the text report
\* ------------------------------------------------------------------------
ExportAlertOf(hop, ignore_unroutable) ==
  LET addr == IF Truthy(hop.address) THEN hop.address ELSE STAR
  IN  IF ignore_unroutable /\ addr = STAR THEN <<>>
      ELSE IF hop.sent - hop.recv > 0
             THEN <<[ttl |-> hop.ttl, lost |-> hop.sent - hop.recv]>>
             ELSE <<>>

RECURSIVE ExportAlertsFrom(_, _, _)
ExportAlertsFrom(c, ttls, ignore_unroutable) ==
  IF ttls = <<>> THEN <<>>
  ELSE ExportAlertOf(c.heap[c.hops[Head(ttls)]], ignore_unroutable)
         \o ExportAlertsFrom(c, Tail(ttls), ignore_unroutable)

_loss_alert_lines(c, ignore_unroutable) ==
  ExportAlertsFrom(c, SortedKeys(DOMAIN c.hops), ignore_unroutable)

\* ------------------------------------------------------------------------
\* State
\* ------------------------------------------------------------------------
VARIABLES
  driver,            \* the entry point this session exercises:
                     \* "api", "loop", "tracer" (run_tracer_round), "round" (run_traceroute_round)
  pc,                \* position of the driver in its code
  heap,              \* the HopStat objects allocated so far
  hops,              \* Circuit.hops: hop number -> index into heap
  calls,             \* number of Circuit API calls made so far
  report,            \* export.write_text_report: ignore_unroutable and the alerts of the report
  cfg,               \* mtr_loop: should_resolve, interval (ms), use_screen
  resolved,          \* mtr_loop: resolved.ip, and whether the lookup of the target succeeded
  hopstats,          \* mtr_loop: the list hopstats, as indices into heap
  max_seen_ttl,      \* mtr_loop: max_seen_ttl
  dns_cache,         \* mtr_loop: dns_cache._map
  dns_refresh_tick,  \* mtr_loop: dns_refresh_tick
  round,             \* mtr_loop: number of rounds started
  next_frame,        \* mtr_loop: next_frame; 0 is the initial 0.0, 1 a time set by a frame
  alerts,            \* mtr_loop: the alerts printed by the last frame
  proc,              \* the traceroute subprocess of the round in progress
  out_b,             \* the lines captured from the subprocess
  rtts,              \* mtr_loop: the result of run_traceroute_round
  result,            \* the result of run_tracer_round
  gen,               \* the generator a call of Circuit.rows() returned
  expired,           \* mtr_loop: whether time.perf_counter() has reached end_time
  round_ms,          \* how long the last round took, in milliseconds (0: none since the sleep)
  slept              \* how long the loop slept after it, in milliseconds (0: not yet)

vars == <<driver, pc, heap, hops, calls, report, cfg, resolved, hopstats, max_seen_ttl, dns_cache,
          dns_refresh_tick, round, next_frame, alerts, proc, out_b, rtts, result, gen,
          expired, round_ms, slept>>

circuitVars == <<heap, hops>>

sessionVars == <<cfg, resolved>>

timeVars == <<expired, round_ms, slept>>

loopVars == <<sessionVars, hopstats, max_seen_ttl, dns_cache, dns_refresh_tick, round, next_frame,
             alerts>>

procVars == <<proc, out_b, rtts, result>>

Circuit == [heap |-> heap, hops |-> hops]

\* proc.state: "none" (no subprocess), "running", "exited" (communicate()
\* returned), "killed" (killed after the deadline), "gone" (the deadline
\* expired and kill() found the process already gone: ProcessLookupError).
\* proc.stdout: the lines the process wrote that nobody has read (kept for the
\* two round runners run on their own; the probe loop keeps only the result).
NoProc == [state |-> "none", stdout |-> <<>>, returncode |-> 0]

NoResult == [rtts_by_ttl |-> EmptyDict, addr_by_ttl |-> EmptyDict, ok |-> FALSE]

NoReport == [ignore_unroutable |-> TRUE, alerts |-> <<>>]

\* gen.state: "none" (rows() not called), "created" (called, body not yet
\* entered), "running" (suspended at the yield), "done" (exhausted).
\* gen.keys: the sorted hop numbers the running generator iterates over,
\* gen.pos: how many of them it has passed, gen.yielded: the rows handed out.
\* gen.at_call: the table as it was when rows() was called.
NoGen == [state |-> "none", keys |-> <<>>, pos |-> 0, yielded |-> <<>>,
          at_call |-> [heap |-> <<>>, hops |-> EmptyDict]]

\* values the callers of the Circuit API pass
ApiAddresses == {None, <<>>, STAR, IP1}

ApiSampleLists == {<<>>, <<1100>>, <<2200, 1100>>}

ApiProbes == {-1, 1}

ApiTtls == {1, 2}

\* values of the initial discovery
SeedAddresses == {None, STAR, IP1}

\* the address the target resolves to
TargetIp == IP1

\* a target name that has no address
NoSuchHost == <<"n", "x">>

\* util.py:108-121: the address resolve_host returns; infos are the addresses
\* getaddrinfo found, <<>> when it raised or found none
resolve_host(target, infos) == IF infos = <<>> THEN target ELSE infos[1]

\* the outcomes of resolve_host: a target that resolves, and one that does not
Resolutions ==
  {[ip |-> resolve_host(HOST, <<TargetIp>>), ok |-> TRUE],
   [ip |-> resolve_host(NoSuchHost, <<>>), ok |-> FALSE]}

Resolved == [ip |-> TargetIp, ok |-> TRUE]

\* interval, in milliseconds
Intervals == {1000}

\* how long a round that ends by itself takes, in milliseconds: less than the
\* interval (a round that runs into its deadline takes more than the interval)
RoundDurations == {500}

\* cli.py:42 with the default timeout (cli.py:98): (0.7 + 2.0) s
RoundDeadline == 2700

ExitCodes == {0, 1}

\* an interactive session that shows addresses, and a batch session that
\* resolves names
Configs ==
  {[should_resolve |-> ~b, interval |-> i, use_screen |-> b] : b \in BOOLEAN, i \in Intervals}

NoConfig == [should_resolve |-> FALSE, interval |-> 1000, use_screen |-> FALSE]

Init ==
  /\ driver \in {"api", "rows", "loop", "tracer", "round"}
  /\ gen = NoGen
  /\ expired = FALSE
  /\ round_ms = 0
  /\ slept = 0
  /\ pc = (CASE driver \in {"api", "rows"} -> "api" [] driver = "loop" -> "setup"
             [] driver = "tracer" -> "t_idle" [] driver = "round" -> "r_idle")
  /\ heap = <<>>
  /\ hops = EmptyDict
  /\ calls = 0
  /\ report = NoReport
  /\ cfg \in (IF driver = "loop" THEN Configs ELSE {NoConfig})
  /\ resolved = Resolved
  /\ hopstats = <<>>
  /\ max_seen_ttl = 0
  /\ dns_cache = EmptyDict
  /\ dns_refresh_tick = 0
  /\ round = 0
  /\ next_frame = 0
  /\ alerts = <<>>
  /\ proc = NoProc
  /\ out_b = <<>>
  /\ rtts = EmptyDict
  /\ result = NoResult

\* ------------------------------------------------------------------------
\* The Circuit API (stats.py) and the text report (export.py)
\* ------------------------------------------------------------------------

\* Circuit.update_hop_round
update_hop_round(ttl, address, probes_attempted, samples_ms) ==
  /\ driver \in {"api", "rows"}
  /\ pc = "api"
  /\ calls < MaxCalls
  /\ calls' = calls + 1
  /\ LET c == CircuitUpdateHopRound(Circuit, ttl, address, probes_attempted, samples_ms)
     IN  /\ heap' = c.heap
         /\ hops' = c.hops
  /\ UNCHANGED <<driver, gen, timeVars, pc, report, loopVars, procVars>>

\* Circuit.update_hop
update_hop(ttl, address, rtt_ms) ==
  update_hop_round(ttl, address, 1, IF rtt_ms = <<>> THEN <<>> ELSE <<rtt_ms[1]>>)

\* Circuit.update_hop_samples
update_hop_samples(ttl, address, samples_ms) ==
  update_hop_round(ttl, address, Max2(1, Len(samples_ms)), samples_ms)

\* export.write_text_report with append_alerts: the alerts section of the report
write_text_report(ignore_unroutable) ==
  /\ driver = "api"
  /\ pc = "api"
  /\ pc' = "reported"
  /\ report' = [ignore_unroutable |-> ignore_unroutable,
                alerts |-> _loss_alert_lines(Circuit, ignore_unroutable)]
  /\ UNCHANGED <<driver, gen, timeVars, circuitVars, calls, loopVars, procVars>>

ApiCall ==
  /\ driver = "api"
  /\ \E ttl \in ApiTtls, address \in ApiAddresses :
       \/ \E p \in ApiProbes, s \in ApiSampleLists : update_hop_round(ttl, address, p, s)
       \/ \E r \in {<<>>, <<1100>>} : update_hop(ttl, address, r)
       \/ \E s \in ApiSampleLists : update_hop_samples(ttl, address, s)

Report == \E i \in BOOLEAN : write_text_report(i)

\* stats.py:16-20: int(round(hop.loss_pct)), round() rounding halves to even
LossPct(sent, recv) ==
  IF sent = 0 THEN 0
  ELSE LET n == 100 * (sent - recv)
           q == n \div sent
           r == n % sent
       IN  IF 2 * r < sent THEN q
           ELSE IF 2 * r > sent THEN q + 1
           ELSE IF q % 2 = 0 THEN q ELSE q + 1

\* stats.py:72-81: the row yielded for a hop
RowOf(hop) ==
  [ttl |-> hop.ttl, address |-> IF Truthy(hop.address) THEN hop.address ELSE STAR,
   loss |-> LossPct(hop.sent, hop.recv), sent |-> hop.sent, recv |-> hop.recv,
   avg_ms |-> hop.avg_ms, best_ms |-> hop.best_ms, worst_ms |-> hop.worst_ms]

\* stats.py:68: rows() is called; a generator function runs none of its body
rows ==
  /\ driver = "rows"
  /\ gen.state = "none"
  /\ gen' = [NoGen EXCEPT !.state = "created", !.at_call = Circuit]
  /\ UNCHANGED <<driver, timeVars, pc, circuitVars, calls, report, loopVars, procVars>>

\* stats.py:70-81: next() on the generator; the first one sorts the keys the
\* table has by then, each one reads the hop as it is by then
RowsNext ==
  /\ driver = "rows"
  /\ gen.state \in {"created", "running"}
  /\ LET keys == IF gen.state = "created" THEN SortedKeys(DOMAIN hops) ELSE gen.keys
     IN  IF gen.pos < Len(keys)
           THEN gen' = [gen EXCEPT !.state = "running", !.keys = keys, !.pos = @ + 1,
                          !.yielded = Append(@, RowOf(heap[hops[keys[gen.pos + 1]]]))]
           ELSE gen' = [gen EXCEPT !.state = "done", !.keys = keys]
  /\ UNCHANGED <<driver, timeVars, pc, circuitVars, calls, report, loopVars, procVars>>

\* what the owner of the table does between the call of rows() and the
\* consumption of its rows
RowsIngest ==
  /\ driver = "rows"
  /\ \E ttl \in ApiTtls, s \in {<<>>, <<1100>>} : update_hop_round(ttl, IP1, 1, s)

\* ------------------------------------------------------------------------
\* tracer.run_tracer_round
\* ------------------------------------------------------------------------

\* tracer.py:65-67: the subprocess is spawned
TracerSpawn ==
  /\ driver = "tracer"
  /\ pc = "t_idle"
  /\ proc' = [state |-> "running", stdout |-> <<>>, returncode |-> 0]
  /\ out_b' = <<>>
  /\ result' = NoResult
  /\ pc' = "t_wait"
  /\ UNCHANGED <<driver, gen, timeVars, circuitVars, calls, report, loopVars, rtts>>

\* tracer.py:73-74, 86-120: communicate() returns in time, the output is parsed
TracerCompletes ==
  /\ driver = "tracer"
  /\ pc = "t_wait"
  /\ \E out \in Outputs, rc \in ExitCodes :
       /\ proc' = [state |-> "exited", stdout |-> <<>>, returncode |-> rc]
       /\ out_b' = out
       /\ result' = TracerParse(out)
  /\ pc' = "t_done"
  /\ UNCHANGED <<driver, gen, timeVars, circuitVars, calls, report, loopVars, rtts>>

\* a variant of TimeoutCapture that keeps what the killed process had written
TimeoutCaptureWritten(written) == written

\* what run_tracer_round parses after the deadline expired (tracer.py:79)
TimeoutCapture(written) == <<>>

\* tracer.py:75-79, 86-120: the deadline expires, the process is killed (or has
\* just exited: ProcessLookupError is suppressed) and an empty text is parsed
TracerTimesOut ==
  /\ driver = "tracer"
  /\ pc = "t_wait"
  /\ \E written \in Outputs, k \in {"killed", "gone"} :
       /\ proc' = [state |-> k, stdout |-> written, returncode |-> 0]
       /\ out_b' = TimeoutCapture(written)
       /\ result' = TracerParse(TimeoutCapture(written))
  /\ pc' = "t_done"
  /\ UNCHANGED <<driver, gen, timeVars, circuitVars, calls, report, loopVars, rtts>>

\* tracer.py:80-84: the caller cancels while communicate() is awaited; the
\* process is killed (ProcessLookupError suppressed) and CancelledError is
\* raised again
TracerCancelled ==
  /\ driver = "tracer"
  /\ pc = "t_wait"
  /\ \E written \in Outputs, k \in {"killed", "gone"} :
       proc' = [state |-> k, stdout |-> written, returncode |-> 0]
  /\ pc' = "t_cancelled"
  /\ UNCHANGED <<driver, gen, timeVars, circuitVars, calls, report, loopVars, out_b, rtts, result>>

\* the caller takes the result and may run another round
TracerReturn ==
  /\ driver = "tracer"
  /\ pc = "t_done"
  /\ pc' = "t_idle"
  /\ proc' = NoProc
  /\ UNCHANGED <<driver, gen, timeVars, circuitVars, calls, report, loopVars, out_b, rtts, result>>

\* ------------------------------------------------------------------------
\* cli.mtr_loop and cli.run_traceroute_round
\* ------------------------------------------------------------------------

\* cli.py:130: int(getattr(h, "ttl", 0) or 1)
SeedTtl(ttl) == IF ttl = 0 THEN 1 ELSE ttl

\* cli.py:129-135: st = [heap, hops, hopstats, max_seen_ttl]
RECURSIVE SeedFrom(_, _)
SeedFrom(st, seed_hops) ==
  IF seed_hops = <<>> THEN st
  ELSE LET ttl == SeedTtl(Head(seed_hops).ttl)
           st1 == [heap         |-> Append(st.heap, HopStat(ttl, Head(seed_hops).address)),
                   hops         |-> Put(st.hops, ttl, Len(st.heap) + 1),
                   hopstats     |-> Append(st.hopstats, Len(st.heap) + 1),
                   max_seen_ttl |-> Max2(st.max_seen_ttl, ttl)]
       IN  SeedFrom(st1, Tail(seed_hops))

\* the lists the initial discovery may return: hops in the order of their ttl
RECURSIVE SeedListsFrom(_)
SeedListsFrom(t) ==
  IF t > MaxTtl THEN {<<>>}
  ELSE SeedListsFrom(t + 1) \cup
       {<<[ttl |-> t, address |-> a]>> \o l : a \in SeedAddresses, l \in SeedListsFrom(t + 1)}

\* cli.py:109-119: the target is resolved (resolve_host raises nothing) and
\* the traceroute executable is looked up; without one, RuntimeError
Setup ==
  /\ driver = "loop"
  /\ pc = "setup"
  /\ resolved' \in Resolutions
  /\ \E tr_path \in {None, <<"t", "r">>} : pc' = IF tr_path = None THEN "error" ELSE "seed"
  /\ UNCHANGED <<driver, gen, timeVars, circuitVars, calls, report, cfg, hopstats, max_seen_ttl, dns_cache,
                 dns_refresh_tick, round, next_frame, alerts, procVars>>

\* what the initial discovery finds: nothing for a name without an address
SeedLists == IF resolved.ok THEN SeedListsFrom(1) ELSE {<<>>}

\* cli.py:121-135: the initial discovery returns and seeds the table
SeedHops ==
  /\ driver = "loop"
  /\ pc = "seed"
  /\ \E seed_hops \in SeedLists :
       LET st == SeedFrom([heap |-> <<>>, hops |-> EmptyDict, hopstats |-> <<>>,
                           max_seen_ttl |-> 0], seed_hops)
       IN  /\ heap' = st.heap
           /\ hops' = st.hops
           /\ hopstats' = st.hopstats
           /\ max_seen_ttl' = st.max_seen_ttl
  /\ pc' = "names"
  /\ UNCHANGED <<driver, gen, timeVars, calls, report, sessionVars, dns_cache, dns_refresh_tick, round, next_frame,
                 alerts, procVars>>

\* cli.py:141-161: the effect of maybe_resolve_names on heap and dns_cache
maybe_resolve_names ==
  IF ~cfg.should_resolve THEN UNCHANGED <<heap, dns_cache>>
  ELSE LET targets == ResolveTargets(heap, hopstats, dns_cache)
       IN  \E results \in [1..Len(targets) -> PtrResults] :
             LET st == ApplyPtrResults([heap |-> heap, cache |-> dns_cache],
                                       heap, hopstats, targets, results)
             IN  /\ heap' = st.heap
                 /\ dns_cache' = st.cache

\* cli.py:163: the first name resolution, before the loop
ResolveNames ==
  /\ driver = "loop"
  /\ pc = "names"
  /\ maybe_resolve_names
  /\ pc' = "round"
  /\ UNCHANGED <<driver, gen, timeVars, hops, calls, report, sessionVars, hopstats, max_seen_ttl,
                 dns_refresh_tick, round, next_frame, alerts, procVars>>

\* cli.py:172: max_seen_ttl or max_hops, the -m argument of the round
MaxHopsArg == IF max_seen_ttl # 0 THEN max_seen_ttl ELSE MaxTtl

\* what a round prints: no hop line for a name without an address
RoundOutputs == IF resolved.ok THEN CliOutputs(MaxHopsArg) ELSE {<<>>}

\* cli.py:49-64: what run_traceroute_round makes of the outputs of a round
\* with -m max_hops
ParsedOutputs == [max_hops \in 1..MaxTtl |-> {CliParse(out) : out \in CliOutputs(max_hops)}]

RoundResults == IF resolved.ok THEN ParsedOutputs[MaxHopsArg] ELSE {CliParse(<<>>)}

\* a variant of RoundSpawn that does not wait for the round in flight
RoundSpawnInFlight ==
  /\ driver = "loop"
  /\ pc \in {"round", "wait"}
  /\ round < MaxRounds
  /\ round' = round + 1
  /\ proc' = [state |-> "running", stdout |-> <<>>, returncode |-> 0]
  /\ rtts' = EmptyDict
  /\ round_ms' = 0
  /\ slept' = 0
  /\ pc' = "wait"
  /\ UNCHANGED <<driver, gen, expired, circuitVars, calls, report, sessionVars, hopstats, max_seen_ttl,
                 dns_cache, dns_refresh_tick, next_frame, alerts, out_b, result>>

\* cli.py:172, 38-40: a round starts, the subprocess is spawned
RoundSpawn ==
  /\ driver = "loop"
  /\ pc = "round"
  /\ round < MaxRounds
  /\ round' = round + 1
  /\ proc' = [state |-> "running", stdout |-> <<>>, returncode |-> 0]
  /\ rtts' = EmptyDict
  /\ round_ms' = 0
  /\ slept' = 0
  /\ pc' = "wait"
  /\ UNCHANGED <<driver, gen, expired, circuitVars, calls, report, sessionVars, hopstats, max_seen_ttl,
                 dns_cache, dns_refresh_tick, next_frame, alerts, out_b, result>>

\* cli.py:41-42, 49-64: communicate() returns in time, the output is parsed
RoundCompletes ==
  /\ driver = "loop"
  /\ pc = "wait"
  /\ rtts' \in RoundResults
  /\ proc' = [state |-> "exited", stdout |-> <<>>, returncode |-> 0]
  /\ round_ms' \in RoundDurations
  /\ pc' = "ingest"
  /\ UNCHANGED <<driver, gen, expired, slept, circuitVars, calls, report, loopVars, out_b, result>>

\* cli.py:41-47, 172: the caller cancels while communicate() is awaited; only
\* asyncio.TimeoutError is caught, so CancelledError leaves run_traceroute_round
\* and mtr_loop at once and nothing touches the subprocess
RoundCancelled ==
  /\ driver = "loop"
  /\ pc = "wait"
  /\ pc' = "cancelled"
  /\ UNCHANGED <<driver, gen, timeVars, circuitVars, calls, report, loopVars, procVars>>

\* what run_traceroute_round returns after the deadline expired (cli.py:47)
TimeoutResult(written) == EmptyDict

\* cli.py:43-47: the deadline expires; whatever kill() does, {} is returned
RoundTimesOut ==
  /\ driver = "loop"
  /\ pc = "wait"
  /\ \E k \in {"killed", "gone"} :
       proc' = [state |-> k, stdout |-> <<>>, returncode |-> 0]
  /\ rtts' = TimeoutResult(RoundOutputs)
  /\ round_ms' = RoundDeadline
  /\ pc' = "ingest"
  /\ UNCHANGED <<driver, gen, expired, slept, circuitVars, calls, report, loopVars, out_b, result>>

\* cli.run_traceroute_round called on its own, cli.py:38-40
CliRoundSpawn ==
  /\ driver = "round"
  /\ pc = "r_idle"
  /\ proc' = [state |-> "running", stdout |-> <<>>, returncode |-> 0]
  /\ out_b' = <<>>
  /\ rtts' = EmptyDict
  /\ pc' = "r_wait"
  /\ UNCHANGED <<driver, gen, timeVars, circuitVars, calls, report, loopVars, result>>

\* cli.py:41-42, 49-64
CliRoundCompletes ==
  /\ driver = "round"
  /\ pc = "r_wait"
  /\ \E out \in Outputs, rc \in ExitCodes :
       /\ proc' = [state |-> "exited", stdout |-> <<>>, returncode |-> rc]
       /\ out_b' = out
       /\ rtts' = CliParse(out)
  /\ pc' = "r_done"
  /\ UNCHANGED <<driver, gen, timeVars, circuitVars, calls, report, loopVars, result>>

\* cli.py:43-47
CliRoundTimesOut ==
  /\ driver = "round"
  /\ pc = "r_wait"
  /\ \E written \in Outputs, k \in {"killed", "gone"} :
       /\ proc' = [state |-> k, stdout |-> written, returncode |-> 0]
       /\ rtts' = TimeoutResult(written)
  /\ out_b' = <<>>
  /\ pc' = "r_done"
  /\ UNCHANGED <<driver, gen, timeVars, circuitVars, calls, report, loopVars, result>>

\* cli.py:41-47: cancelled while communicate() is awaited; CancelledError is
\* not caught and the subprocess is left alone
CliRoundCancelled ==
  /\ driver = "round"
  /\ pc = "r_wait"
  /\ \E written \in Outputs :
       proc' = [state |-> "running", stdout |-> written, returncode |-> 0]
  /\ pc' = "r_cancelled"
  /\ UNCHANGED <<driver, gen, timeVars, circuitVars, calls, report, loopVars, out_b, rtts, result>>

\* the caller takes the result and may run another round
CliRoundReturn ==
  /\ driver = "round"
  /\ pc = "r_done"
  /\ pc' = "r_idle"
  /\ proc' = NoProc
  /\ UNCHANGED <<driver, gen, timeVars, circuitVars, calls, report, loopVars, out_b, rtts, result>>

\* cli.py:176-183: the body of the loop over hopstats
IngestHop(hs, round_rtts) ==
  LET h1 == [hs EXCEPT !.sent = @ + 1]
  IN  IF hs.ttl \in DOMAIN round_rtts
        THEN SetAvg(FoldSample(h1, round_rtts[hs.ttl]))
        ELSE h1

RECURSIVE IngestFrom(_, _, _)
IngestFrom(heapv, objs, round_rtts) ==
  IF objs = <<>> THEN heapv
  ELSE IngestFrom([heapv EXCEPT ![Head(objs)] = IngestHop(@, round_rtts)],
                  Tail(objs), round_rtts)

\* cli.py:174-183: the result of the round is folded into the hop statistics
Ingest ==
  /\ driver = "loop"
  /\ pc = "ingest"
  /\ heap' = IngestFrom(heap, hopstats, rtts)
  /\ pc' = "tick"
  /\ UNCHANGED <<driver, gen, timeVars, hops, calls, report, loopVars, procVars>>

\* cli.py:187: max(1, int(2 / max(0.01, float(interval)))), interval in ms
RefreshEvery(interval) == Max2(1, 2000 \div Max2(10, interval))

\* cli.py:185-189: periodic PTR refresh
DnsTick ==
  /\ driver = "loop"
  /\ pc = "tick"
  /\ IF dns_refresh_tick + 1 >= RefreshEvery(cfg.interval)
       THEN /\ dns_refresh_tick' = 0
            /\ maybe_resolve_names
       ELSE /\ dns_refresh_tick' = dns_refresh_tick + 1
            /\ UNCHANGED <<heap, dns_cache>>
  /\ pc' = "frame"
  /\ proc' = NoProc
  /\ rtts' = EmptyDict
  /\ UNCHANGED <<driver, gen, timeVars, hops, calls, report, sessionVars, hopstats, max_seen_ttl, round, next_frame,
                 alerts, out_b, result>>

\* cli.py:192-214: a frame is due; the table and the alerts are printed
Render ==
  /\ driver = "loop"
  /\ pc = "frame"
  /\ cfg.use_screen
  /\ alerts' = CliAlerts(Circuit, round)
  /\ next_frame' = 1
  /\ pc' = "duration"
  /\ UNCHANGED <<driver, gen, timeVars, circuitVars, calls, report, sessionVars, hopstats, max_seen_ttl,
                 dns_cache, dns_refresh_tick, round, procVars>>

\* cli.py:192-194: no screen, or the next frame is not due yet (the first
\* frame is always due: next_frame starts at 0.0; with fps <= 0 it stays 0.0
\* and every frame is due, which Render covers)
SkipFrame ==
  /\ driver = "loop"
  /\ pc = "frame"
  /\ ~cfg.use_screen \/ next_frame # 0
  /\ pc' = "duration"
  /\ UNCHANGED <<driver, gen, timeVars, circuitVars, calls, report, loopVars, procVars>>

\* end_time passes while the loop waits for the round, or while it sleeps
\* (pc = "round": the sleep, if any, is over and the next round is due)
DurationExpires ==
  /\ driver = "loop"
  /\ pc \in {"wait", "round"}
  /\ ~expired
  /\ expired' = TRUE
  /\ UNCHANGED <<driver, gen, round_ms, slept, pc, circuitVars, calls, report, loopVars,
                 procVars>>

\* cli.py:217-221: the duration has elapsed, the loop returns
DurationElapsed ==
  /\ driver = "loop"
  /\ pc = "duration"
  /\ expired
  /\ pc' = "stopped"
  /\ UNCHANGED <<driver, gen, timeVars, circuitVars, calls, report, loopVars, procVars>>

\* a variant of SleepFor that sleeps what the round left of the interval
SleepForRemainder(interval) == Max2(0, interval - round_ms)

\* cli.py:223: max(0.01, float(interval)), in milliseconds
SleepFor(interval) == Max2(10, interval)

\* cli.py:217, 223: the duration has not elapsed (or there is none); sleep
Sleep ==
  /\ driver = "loop"
  /\ pc = "duration"
  /\ ~expired
  /\ slept' = SleepFor(cfg.interval)
  /\ pc' = "round"
  /\ UNCHANGED <<driver, gen, expired, round_ms, circuitVars, calls, report, loopVars,
                 procVars>>

Next ==
  \/ ApiCall
  \/ Report
  \/ rows
  \/ RowsNext
  \/ RowsIngest
  \/ TracerSpawn
  \/ TracerCompletes
  \/ TracerTimesOut
  \/ TracerCancelled
  \/ TracerReturn
  \/ CliRoundSpawn
  \/ CliRoundCompletes
  \/ CliRoundTimesOut
  \/ CliRoundCancelled
  \/ CliRoundReturn
  \/ Setup
  \/ SeedHops
  \/ ResolveNames
  \/ RoundSpawn
  \/ RoundCompletes
  \/ RoundTimesOut
  \/ RoundCancelled
  \/ Ingest
  \/ DnsTick
  \/ Render
  \/ SkipFrame
  \/ DurationExpires
  \/ DurationElapsed
  \/ Sleep

Spec == Init /\ [][Next]_vars

\* ------------------------------------------------------------------------
\* Properties
\* ------------------------------------------------------------------------

HopOf(ttl) == heap[hops[ttl]]

SentBefore(t) == IF t \in DOMAIN hops THEN HopOf(t).sent ELSE 0

RecvBefore(t) == IF t \in DOMAIN hops THEN HopOf(t).recv ELSE 0

Range(seq) == {seq[i] : i \in 1..Len(seq)}

\* the step of mtr_loop that folds the result of a round into the table
IngestStep == pc = "ingest" /\ pc' = "tick"

\* ---- lines, as the claims describe them ----

\* line begins, after i blanks, with the digits i+1..j, followed by whitespace
HopIndexAt(line, i, j) ==
  /\ i < j
  /\ j < Len(line)
  /\ \A k \in 1..i : line[k] \in Whitespace
  /\ \A k \in (i + 1)..j : line[k] \in Digits
  /\ line[j + 1] \in Whitespace

\* a line that begins with an integer hop index followed by whitespace
BeginsWithHopIndex(line) ==
  \E i \in 0..Len(line), j \in 1..Len(line) : HopIndexAt(line, i, j)

\* ... and holds at least one more character after that whitespace
HopLineWithRow(line) ==
  \E i \in 0..Len(line), j \in 1..Len(line) : HopIndexAt(line, i, j) /\ Len(line) >= j + 2

HopIndexEnd(line) ==
  CHOOSE j \in 1..Len(line) : \E i \in 0..Len(line) : HopIndexAt(line, i, j)

HopNumber(line) ==
  LET j == HopIndexEnd(line)
      i == CHOOSE k \in 0..Len(line) : HopIndexAt(line, k, j)
  IN  IntOf(SubSeq(line, i + 1, j))

\* a hop line whose remainder is only '*' marks
StarsOnly(line) ==
  /\ BeginsWithHopIndex(line)
  /\ \E k \in (HopIndexEnd(line) + 1)..Len(line) : line[k] = "*"
  /\ \A k \in (HopIndexEnd(line) + 1)..Len(line) : line[k] \in Whitespace \cup {"*"}

\* the lines of text with hop number n, in order
LinesOfHop(text, n) ==
  SelectSeq(text, LAMBDA l : BeginsWithHopIndex(l) /\ HopNumber(l) = n)

\* the samples run_tracer_round finds on one line
LineSamples(line) ==
  LET r == TracerParse(<<line>>).rtts_by_ttl
  IN  IF HopNumber(line) \in DOMAIN r THEN r[HopNumber(line)] ELSE <<>>

RECURSIVE ConcatSamples(_)
ConcatSamples(lines) ==
  IF lines = <<>> THEN <<>> ELSE LineSamples(Head(lines)) \o ConcatSamples(Tail(lines))

\* run_tracer_round / run_traceroute_round returned after communicate() returned
TracerParsed == pc = "t_done" /\ proc.state = "exited"

CliParsed == pc = "r_done" /\ proc.state = "exited"

TimedOut == proc.state \in {"killed", "gone"}

\* C1: for every hop in the table, 0 <= recv <= sent, after any sequence of
\* update_hop_round / update_hop / update_hop_samples calls and after any
\* number of mtr_loop rounds.
C1_RecvLeSent ==
  \A t \in DOMAIN hops :
    /\ HopOf(t).sent >= 0
    /\ HopOf(t).recv >= 0
    /\ HopOf(t).recv <= HopOf(t).sent

\* C2: sent and recv of a hop never decrease: every step leaves every hop of
\* the table in the table, with sent' >= sent and recv' >= recv.
C2_Monotone ==
  [][\A t \in DOMAIN hops :
       /\ t \in DOMAIN hops'
       /\ heap'[hops'[t]].sent >= HopOf(t).sent
       /\ heap'[hops'[t]].recv >= HopOf(t).recv]_vars

\* C2 witness: a hop that went through at least two ingestions, one with a reply
C2_Witness ==
  \E t \in DOMAIN hops : HopOf(t).sent >= 2 /\ HopOf(t).recv >= 1

\* C3: ingesting a round increases, for every hop number present in the
\* round's result, sent by exactly probes_per_hop (1 for the rounds of mtr_loop,
\* probes_attempted for update_hop_round) and recv by exactly the number of RTT
\* samples returned for that hop (1 per hop of a result of mtr_loop).
C3_RoundAttribution ==
  [][/\ IngestStep =>
          \A t \in DOMAIN rtts :
            /\ t \in DOMAIN hops'
            /\ heap'[hops'[t]].sent = SentBefore(t) + 1
            /\ heap'[hops'[t]].recv = RecvBefore(t) + 1
     /\ \A ttl \in ApiTtls, address \in ApiAddresses, s \in ApiSampleLists :
          update_hop_round(ttl, address, 1, s) =>
            /\ heap'[hops'[ttl]].sent = SentBefore(ttl) + 1
            /\ heap'[hops'[ttl]].recv = RecvBefore(ttl) + Len(s)]_vars

\* C4: a hop number absent from a round's result is not touched that round:
\* its sent, recv and RTT samples are unchanged; a round that timed out or
\* parsed no hop line leaves every hop unchanged.
C4_AbsentUntouched ==
  [][/\ IngestStep =>
          \A t \in DOMAIN hops :
            t \notin DOMAIN rtts =>
              /\ heap'[hops'[t]].sent = HopOf(t).sent
              /\ heap'[hops'[t]].recv = HopOf(t).recv
              /\ heap'[hops'[t]].rtts = HopOf(t).rtts
     /\ \A ttl \in ApiTtls, address \in ApiAddresses, p \in ApiProbes, s \in ApiSampleLists :
          update_hop_round(ttl, address, p, s) =>
            \A t \in DOMAIN hops \ {ttl} : heap'[hops'[t]] = HopOf(t)]_vars

\* the lost count recorded for hop t by the previous check: the one of the
\* alert it printed, 0 when it printed none
PrevLost(t) ==
  IF \E a \in Range(alerts) : a.ttl = t
    THEN (CHOOSE a \in Range(alerts) : a.ttl = t).lost
    ELSE 0

\* the alerts the step emits
Emitted == Range(alerts') \ Range(alerts)

C6_NoAlertForUnknown ==
  /\ \A a \in Range(alerts) : HopOf(a.ttl).address \notin {None, STAR}
  /\ (pc = "reported" /\ report.ignore_unroutable) =>
       \A a \in Range(report.alerts) : HopOf(a.ttl).address \notin {None, STAR}

\* C6 witness: a frame was printed while a hop with the address "*" had lost a probe
C6_Witness ==
  /\ cfg.use_screen
  /\ pc = "duration"
  /\ next_frame = 1
  /\ \E t \in DOMAIN hops : HopOf(t).address = STAR /\ HopOf(t).sent - HopOf(t).recv > 0

\* C7: for every hop line whose remainder is only '*' marks, the round result
\* holds that hop number, with an empty sample list and no address (when no
\* other line carries the same hop number); the hop is never dropped.
C7_StarHopKept ==
  /\ TracerParsed =>
       \A k \in 1..Len(out_b) :
         StarsOnly(out_b[k]) =>
           /\ HopNumber(out_b[k]) \in DOMAIN result.rtts_by_ttl
           /\ HopNumber(out_b[k]) \in DOMAIN result.addr_by_ttl
           /\ Len(LinesOfHop(out_b, HopNumber(out_b[k]))) = 1 =>
                /\ result.rtts_by_ttl[HopNumber(out_b[k])] = <<>>
                /\ result.addr_by_ttl[HopNumber(out_b[k])] = None
  /\ CliParsed =>
       \A k \in 1..Len(out_b) :
         StarsOnly(out_b[k]) => HopNumber(out_b[k]) \in DOMAIN rtts

\* C8: when a hop number appears on several lines of one output, its sample
\* list in the round result is the concatenation, in line order, of the
\* samples of those lines.
C8_SamplesConcatenated ==
  TracerParsed =>
    \A k \in 1..Len(out_b) :
      HopLineWithRow(out_b[k]) =>
        /\ HopNumber(out_b[k]) \in DOMAIN result.rtts_by_ttl
        /\ result.rtts_by_ttl[HopNumber(out_b[k])]
             = ConcatSamples(LinesOfHop(out_b, HopNumber(out_b[k])))

\* C9 as stated: ok is True if and only if at least one captured line begins
\* with an integer hop index followed by whitespace, whatever the exit status.
C9_OkIffHopIndex ==
  pc = "t_done" => (result.ok <=> \E k \in 1..Len(out_b) : BeginsWithHopIndex(out_b[k]))

\* C9 as amended: ok is True if and only if at least one captured line begins
\* with an integer hop index followed by whitespace and at least one further
\* character; the hop numbers of the result are those of such lines (all
\* other lines are skipped), whatever the exit status.
C9_OkIffHopLine ==
  pc = "t_done" =>
    /\ result.ok <=> \E k \in 1..Len(out_b) : HopLineWithRow(out_b[k])
    /\ DOMAIN result.rtts_by_ttl
         = {HopNumber(out_b[k]) : k \in {i \in 1..Len(out_b) : HopLineWithRow(out_b[i])}}

\* C9 witness: a run that exited non-zero, with a hop line and a line that is
\* no hop line, was reported as successful
C9_Witness ==
  /\ pc = "t_done"
  /\ proc.returncode = 1
  /\ result.ok
  /\ \E k \in 1..Len(out_b) : ~HopLineWithRow(out_b[k])

\* C10: when the deadline expires the runner kills the process and returns
\* (it does not raise) a failed round with an empty result; nothing the
\* killed process wrote is parsed.
C10_TimeoutEmptyRound ==
  TimedOut =>
    /\ pc \notin {"t_wait", "r_wait", "wait"}
    /\ driver = "tracer" => result = NoResult
    /\ driver \in {"round", "loop"} => rtts = EmptyDict

\* C10 witness: run_tracer_round returned after killing a process that had
\* already written a hop line
C10_Witness ==
  /\ pc = "t_done"
  /\ proc.state = "killed"
  /\ \E k \in 1..Len(proc.stdout) : HopLineWithRow(proc.stdout[k])

\* the round runner, and with it the loop, was left by a CancelledError
CancelledPcs == {"t_cancelled", "r_cancelled", "cancelled"}

\* C11: when the caller cancels while a round is in flight, the tracer
\* process of that round is killed (it is not running once the round runner
\* has exited), the loop stops, and nothing of that round is ingested.
C11_CancelKillsProcess ==
  [][/\ (pc \notin CancelledPcs /\ pc' \in CancelledPcs) =>
          /\ proc'.state \in {"killed", "gone"}
          /\ heap' = heap
          /\ hops' = hops
     /\ pc \in CancelledPcs => vars' = vars]_vars

\* C13: when the target cannot be resolved to any address, the session
\* aborts with an error before the loop starts: no discovery and no round is
\* ever run for it.
C13_UnresolvableAborts ==
  (driver = "loop" /\ pc # "setup" /\ ~resolved.ok) =>
    /\ pc = "error"
    /\ proc.state = "none"
    /\ round = 0

\* the hop numbers at which the table shows the destination address
DestinationHops == {t \in DOMAIN hops : HopOf(t).address = resolved.ip}

\* the cutoff: the smallest of them
Cutoff == CHOOSE t \in DestinationHops : \A u \in DestinationHops : t <= u

\* C12: once a cutoff is established, the table never gains a hop with a
\* number strictly greater than the cutoff, nor updates the counters of one.
C12_NothingBeyondCutoff ==
  [][DestinationHops # {} =>
       \A t \in DOMAIN hops' :
         t > Cutoff =>
           /\ t \in DOMAIN hops
           /\ heap'[hops'[t]].sent = HopOf(t).sent
           /\ heap'[hops'[t]].recv = HopOf(t).recv
           /\ heap'[hops'[t]].rtts = HopOf(t).rtts]_vars

\* the rows of the table as it was when rows() was called
RowsAtCall ==
  LET keys == SortedKeys(DOMAIN gen.at_call.hops)
  IN  [i \in 1..Len(keys) |-> RowOf(gen.at_call.heap[gen.at_call.hops[keys[i]]])]

\* C14: rows() is a point-in-time snapshot: the rows it yields are the rows
\* of the table as it was when rows() was called, whatever is ingested between
\* the call and the consumption.
C14_RowsSnapshot ==
  /\ gen.state \in {"running", "done"} =>
       /\ Len(gen.yielded) <= Len(RowsAtCall)
       /\ \A i \in 1..Len(gen.yielded) : gen.yielded[i] = RowsAtCall[i]
  /\ gen.state = "done" => gen.yielded = RowsAtCall

\* C15 as stated: a hop's address changes only from unset to a non-empty
\* address; a non-empty address is never changed or blanked by any operation.
C15_AddressWriteOnce ==
  [][\A t \in DOMAIN hops :
       /\ t \in DOMAIN hops'
       /\ heap'[hops'[t]].address # HopOf(t).address =>
            /\ ~Truthy(HopOf(t).address)
            /\ Truthy(heap'[hops'[t]].address)]_vars

\* C15 as amended: an ingestion sets a hop's address only when it is unset
\* and a non-empty address is supplied; the only other change of an address
\* is the name resolution of the probe loop, which replaces an IP literal by
\* the non-empty name found for it; a non-empty address is never blanked.
C15_AddressNeverBlanked ==
  [][\A t \in DOMAIN hops :
       /\ t \in DOMAIN hops'
       /\ heap'[hops'[t]].address # HopOf(t).address =>
            /\ Truthy(heap'[hops'[t]].address)
            /\ \/ ~Truthy(HopOf(t).address) /\ driver \in {"api", "rows"}
               \/ /\ driver = "loop"
                  /\ cfg.should_resolve
                  /\ pc \in {"names", "tick"}
                  /\ _is_ip(HopOf(t).address)]_vars

\* C15 witness: the probe loop shows a hop under the name found for its address
C15_Witness ==
  /\ driver = "loop"
  /\ \E t \in DOMAIN hops : HopOf(t).address = HOST /\ HopOf(t).sent >= 1

\* C16: once the duration has elapsed, mtr_loop starts no further round; it
\* stops only after the results of the last completed round were ingested,
\* and the duration check never interrupts a round in flight.
C16_NoRoundAfterDeadline ==
  [][/\ (driver = "loop" /\ expired) => round' = round
     /\ pc' = "stopped" => (pc \in {"duration", "stopped"} /\ proc.state = "none")
     /\ pc = "wait" => pc' \in {"wait", "ingest", "cancelled"}]_vars

\* the hops of the discovery have been counted once per ingested round
IngestedRounds(n) == \A i \in 1..Len(hopstats) : heap[hopstats[i]].sent = n

\* C17: rounds are strictly sequential: a round starts only when the results
\* of every earlier round have been ingested, and a subprocess is spawned
\* only when none is outstanding.
C17_RoundsSequential ==
  [][/\ round' # round =>
          /\ round' = round + 1
          /\ pc = "round"
          /\ IngestedRounds(round)
     /\ (proc'.state = "running" /\ proc' # proc /\ pc' \notin CancelledPcs) =>
          proc.state = "none"]_vars

\* C17 witness: the second round is in flight, the first one ingested
C17_Witness ==
  /\ driver = "loop"
  /\ pc = "wait"
  /\ round = 2
  /\ proc.state = "running"
  /\ hopstats # <<>>
  /\ IngestedRounds(1)

\* the next round is due: the sleep after a round is over
AfterSleep == driver = "loop" /\ pc = "round" /\ round >= 1

====
